---------------------------- MODULE Spec2Model ----------------------------
(***************************************************************************)
(* Process-local synchronisation syscalls of os/src/syscall/sync.rs:       *)
(* mutex / semaphore / condvar creation and use, the need / allocation /   *)
(* available accounting and the Banker's-algorithm deadlock detector.      *)
(*                                                                         *)
(* The kernel runs one task at a time and a syscall is never preempted:    *)
(* every action below is one syscall from entry to its return or to the    *)
(* point where the mechanism suspends the caller, or the continuation of a *)
(* woken task up to its return.                                            *)
(*                                                                         *)
(* usize arithmetic.  The accounting entries are Rust usize (64 bit).  A   *)
(* usize value v is represented by the integer r with r = v for v below    *)
(* 2^63 and r = v - 2^64 otherwise, so that a negative r stands for the    *)
(* wrapped value 2^64 + r.  Wrapping + and - on usize are then + and - on  *)
(* the representatives; the unsigned order is ULt.  Whether an overflowing *)
(* operation wraps or panics depends on the build profile                  *)
(* (overflow_checks): both outcomes are modelled.                          *)
(***************************************************************************)
EXTENDS Integers, Sequences, FiniteSets, TLC

\* ------------------------------------------------------------- bounds
MaxTasks == 2      \* tasks of the process (process_inner.tasks.len())
MaxMutex == 1      \* mutexes created in one run
MaxSem == 1        \* semaphores created in one run
MaxCondvar == 1    \* condvars created in one run
MaxCount == 1      \* largest res_count passed to semaphore_create
MaxCreate == 2     \* resources of one class created in one run of SpecCreate
ValBound == 1      \* calls are taken only while every entry stays within +-ValBound

\* ---------------------------------------------------------- constants
DEAD == -57005     \* -0xDEAD

VARIABLES
    overflow_checks,  \* build profile: TRUE = overflow panics, FALSE = wraps
    panicked,         \* the kernel has panicked (it halts)
    ntasks,           \* process_inner.tasks.len()
    use_dead_lock,    \* process_inner.use_dead_lock
    mutex_list,       \* process_inner.mutex_list
    semaphore_list,   \* process_inner.semaphore_list
    condvar_list,     \* process_inner.condvar_list
    m_available,      \* process_inner.m_available
    s_available,      \* process_inner.s_available
    m_need,           \* task_inner.m_need, per task
    m_allocation,     \* task_inner.m_allocation, per task
    s_need,           \* task_inner.s_need, per task
    s_allocation,     \* task_inner.s_allocation, per task
    pc,               \* where each task is: in user mode or inside a syscall
    last,             \* the syscall step taken last: task, call, arguments, outcome
    script,           \* scenario runs: the calls each task has still to make
    scenario,         \* scenario runs: which scenario; "free" = any call
    shared,           \* user-level shared datum of the producer / consumer
    observed          \* what the consumer read from shared

vars == <<overflow_checks, panicked, ntasks, use_dead_lock, mutex_list,
          semaphore_list, condvar_list, m_available, s_available, m_need,
          m_allocation, s_need, s_allocation, pc, last, script, scenario,
          shared, observed>>

acct == <<m_available, s_available, m_need, m_allocation, s_need, s_allocation>>
mech == <<mutex_list, semaphore_list, condvar_list>>
user == <<script, scenario, shared, observed>>
build == <<overflow_checks, ntasks>>

Tasks == 0 .. (ntasks - 1)

\* ---------------------------------------------------- usize arithmetic
\* unsigned a < b on representatives
ULt(a, b) ==
    IF (a >= 0) = (b >= 0) THEN a < b ELSE a >= 0

\* unsigned a > b  (the detector's `need > remain`)
UGt(a, b) == ULt(b, a)

\* a + b exceeds usize::MAX
AddOverflows(a, b) ==
    IF a >= 0 /\ b >= 0 THEN FALSE
    ELSE IF a < 0 /\ b < 0 THEN TRUE
    ELSE a + b >= 0

\* a - b is below zero
SubUnderflows(a, b) == ULt(a, b)

\* the entry holds a value that wrapped below zero (2^64 + r)
IsWrapped(r) == r < 0

Min(S) == CHOOSE x \in S : \A y \in S : x <= y

\* ------------------------------------------------- vectors and tables
\* Option::None in a resource table
NoneSlot == [none |-> TRUE]

IsNone(item) == item = NoneSlot

\* vec[id], ids count from 0
At(vec, id) == vec[id + 1]

\* a vector extended with zeros until it covers index id
Extend(vec, id) ==
    IF Len(vec) > id THEN vec
    ELSE vec \o [i \in 1 .. (id + 1 - Len(vec)) |-> 0]

\* adjust_*(id, num): extend the vector to cover id, then add num to entry id
adjust(vec, id, num) ==
    [Extend(vec, id) EXCEPT ![id + 1] = @ + num]

\* a faulty slot search: the index of the last slot, taken before the push
FirstFree_last(list) ==
    IF list = <<>> THEN 0 ELSE Len(list) - 1

\* .iter().enumerate().find(|(_, item)| item.is_none()).map(|(id, _)| id), or
\* the table length when no slot is empty (the push branch)
FirstFree(list) ==
    LET empty == {id \in 0 .. (Len(list) - 1) : IsNone(At(list, id))}
    IN IF empty = {} THEN Len(list) ELSE Min(empty)

\* list[id] = item for a free slot, list.push(item) otherwise
Install(list, id, item) ==
    IF id < Len(list) THEN [list EXCEPT ![id + 1] = item]
    ELSE Append(list, item)

\* --------------------------------------------------------- task state
InUser == [st |-> "user", op |-> "none", res |-> 0, m |-> 0]

Label(t, op, a, b, phase, ret) ==
    [task |-> t, op |-> op, a |-> a, b |-> b, phase |-> phase, ret |-> ret]

Running(t) == ~panicked /\ t \in Tasks /\ pc[t].st = "user"

\* ------------------------------------------------------------ creation
\* MutexBlocking::new() / MutexSpin::new()
NewMutex(blocking) ==
    [blocking |-> blocking, locked |-> FALSE, wait_queue |-> <<>>]

\* Semaphore::new(res_count); res_count is kept for the capacity of the claims
NewSemaphore(res_count) ==
    [count |-> res_count, wait_queue |-> <<>>, res_count |-> res_count]

\* Condvar::new()
NewCondvar == [wait_queue |-> <<>>]

\* the units of a new mutex: adjust_m_available(res, 1)
MutexCapacity == 1

\* a faulty creation: the loop over the tasks that extends their vectors is missing
sys_mutex_create_no_tasks(t, blocking) ==
    /\ Running(t)
    /\ LET res == FirstFree(mutex_list)
       IN /\ mutex_list' = Install(mutex_list, res, NewMutex(blocking))
          /\ m_available' = adjust(m_available, res, MutexCapacity)
          /\ last' = Label(t, "mutex_create", IF blocking THEN 1 ELSE 0, 0, "ret", res)
    /\ UNCHANGED <<semaphore_list, condvar_list, s_available, s_need, s_allocation,
                   m_allocation, m_need, pc, use_dead_lock, panicked, build>>

sys_mutex_create(t, blocking) ==
    /\ Running(t)
    /\ LET res == FirstFree(mutex_list)
       IN /\ mutex_list' = Install(mutex_list, res, NewMutex(blocking))
          /\ m_available' = adjust(m_available, res, MutexCapacity)
          /\ m_allocation' = [k \in Tasks |-> adjust(m_allocation[k], res, 0)]
          /\ m_need' = [k \in Tasks |-> adjust(m_need[k], res, 0)]
          /\ last' = Label(t, "mutex_create", IF blocking THEN 1 ELSE 0, 0, "ret", res)
    /\ UNCHANGED <<semaphore_list, condvar_list, s_available, s_need, s_allocation,
                   pc, use_dead_lock, panicked, build>>

sys_semaphore_create(t, res_count) ==
    /\ Running(t)
    /\ LET id == FirstFree(semaphore_list)
       IN /\ semaphore_list' = Install(semaphore_list, id, NewSemaphore(res_count))
          /\ s_available' = adjust(s_available, id, res_count)
          /\ s_allocation' = [k \in Tasks |-> adjust(s_allocation[k], id, 0)]
          /\ s_need' = [k \in Tasks |-> adjust(s_need[k], id, 0)]
          /\ last' = Label(t, "semaphore_create", res_count, 0, "ret", id)
    /\ UNCHANGED <<mutex_list, condvar_list, m_available, m_need, m_allocation,
                   pc, use_dead_lock, panicked, build>>

sys_condvar_create(t) ==
    /\ Running(t)
    /\ LET id == FirstFree(condvar_list)
       IN /\ condvar_list' = Install(condvar_list, id, NewCondvar)
          /\ last' = Label(t, "condvar_create", 0, 0, "ret", id)
    /\ UNCHANGED <<mutex_list, semaphore_list, acct, pc, use_dead_lock, panicked, build>>

\* a faulty match: every argument other than 0 enables detection
sys_enable_deadlock_detect_nonzero(t, enabled) ==
    /\ Running(t)
    /\ use_dead_lock' = (enabled # 0)
    /\ last' = Label(t, "enable_deadlock_detect", enabled, 0, "ret", 0)
    /\ UNCHANGED <<mech, acct, pc, panicked, build>>

sys_enable_deadlock_detect(t, enabled) ==
    /\ Running(t)
    /\ use_dead_lock' = CASE enabled = 1 -> TRUE
                          [] enabled = 0 -> FALSE
                          [] OTHER -> use_dead_lock
    /\ last' = Label(t, "enable_deadlock_detect", enabled, 0, "ret",
                     IF enabled \in {0, 1} THEN 0 ELSE -1)
    /\ UNCHANGED <<mech, acct, pc, panicked, build>>


\* ------------------------------------------------------------- guards
\* the exclusive-access guards (inner_exclusive_access()) of the process and of
\* task k, and what a syscall does with them, in program order
ProcessGuard == [cls |-> "process", id |-> 0]

TaskGuard(k) == [cls |-> "task", id |-> k]

NoGuard == [cls |-> "none", id |-> 0]

\* let x = ..inner_exclusive_access()
Acquire(g) == [k |-> "acquire", g |-> g]

\* drop(x), or x going out of scope
Release(g) == [k |-> "release", g |-> g]

\* the call of mutex.lock(), sem.down(), condvar.wait(..), ...
Mechanism == [k |-> "mechanism", g |-> NoGuard]

\* the syscall returns its value
Return == [k |-> "return", g |-> NoGuard]

\* ------------------------------------------------------------ detector
\* the `any` closure over work for one task: the index of the first resource
\* whose need exceeds what remains, or work.len() when there is none
FirstExceed(need_v, work) ==
    LET bad == {i \in 0 .. (Len(work) - 1) :
                    UGt(At(Extend(need_v, i), i), At(work, i))}
    IN IF bad = {} THEN Len(work) ELSE Min(bad)

\* the body of `for task_id in 0..task_len` for one task.  adjust_*(i, 0) in
\* the closures extends the task's vectors over the indices it visits.  With
\* overflow checks the kernel stops at the first `*ptr += ..` that overflows:
\* the entries of work before it are updated, the task's allocation vector
\* covers the indices up to it, and nothing after it runs (halt).
scan_task(st, task_id) ==
    IF st.halt \/ st.finish[task_id] THEN st
    ELSE
      LET n == Len(st.work)
          fe == FirstExceed(st.need[task_id], st.work)
          tested == IF fe < n THEN fe ELSE n - 1
          need1 == IF n = 0 THEN st.need
                   ELSE [st.need EXCEPT ![task_id] = Extend(@, tested)]
          alloc1 == IF n = 0 THEN st.alloc
                    ELSE [st.alloc EXCEPT ![task_id] = Extend(@, n - 1)]
          over == {i \in 0 .. (n - 1) :
                      AddOverflows(At(st.work, i), At(alloc1[task_id], i))}
          log1 == st.log \o <<Acquire(TaskGuard(task_id)), Release(TaskGuard(task_id))>>
      IN IF fe < n
         THEN [st EXCEPT !.need = need1, !.log = log1]
         ELSE IF st.checks /\ over # {}
         THEN [st EXCEPT
                 !.log = st.log \o <<Acquire(TaskGuard(task_id))>>,
                 !.work = [i \in 1 .. n |->
                              IF i - 1 < Min(over)
                              THEN st.work[i] + alloc1[task_id][i]
                              ELSE st.work[i]],
                 !.finish = [@ EXCEPT ![task_id] = TRUE],
                 !.need = need1,
                 !.alloc = [@ EXCEPT ![task_id] = Extend(@, Min(over))],
                 !.ovf = TRUE,
                 !.halt = TRUE]
         ELSE [st EXCEPT
                 !.log = log1,
                 !.work = [i \in 1 .. n |-> st.work[i] + alloc1[task_id][i]],
                 !.finish = [@ EXCEPT ![task_id] = TRUE],
                 !.need = need1,
                 !.alloc = alloc1,
                 !.found = TRUE,
                 !.order = Append(@, task_id),
                 !.ovf = @ \/ over # {}]

\* one pass of the for loop over task ids task_id .. task_len - 1
RECURSIVE scan_pass(_, _)
scan_pass(st, task_id) ==
    IF task_id >= st.task_len THEN st
    ELSE scan_pass(scan_task(st, task_id), task_id + 1)

\* a faulty loop: `found` is tested one pass late, so the loop runs one more
\* pass after the pass that made no progress
RECURSIVE scan_loop_late(_)
scan_loop_late(st) ==
    LET p == scan_pass([st EXCEPT !.found = FALSE, !.passes = @ + 1], 0)
    IN IF p.found THEN scan_loop_late(p)
       ELSE scan_pass([p EXCEPT !.passes = @ + 1], 0)

\* loop { found = false; for ...; if !found { break } }; a kernel stopped by an
\* overflow runs no further pass
RECURSIVE scan_loop(_)
scan_loop(st) ==
    LET p == scan_pass([st EXCEPT !.found = FALSE, !.passes = @ + 1], 0)
    IN IF p.found /\ ~p.halt THEN scan_loop(p) ELSE p

\* the safety check of one resource class: work = available.clone(),
\* finish = vec![false; task_len], then the loop; ovf: an addition to work
\* overflowed (with overflow checks the kernel stopped there)
detect(available, need, alloc) ==
    scan_loop([work |-> available,
               finish |-> [k \in Tasks |-> FALSE],
               need |-> need,
               alloc |-> alloc,
               found |-> FALSE,
               order |-> <<>>,
               passes |-> 0,
               log |-> <<>>,
               ovf |-> FALSE,
               halt |-> FALSE,
               checks |-> overflow_checks,
               task_len |-> ntasks])

\* finish.iter().any(|x| *x == false)
Unsafe(d) == \E k \in DOMAIN d.finish : d.finish[k] = FALSE

\* a faulty reject path: the speculative need is left in place
need_rollback_none(need, t, id) == need

\* the refused request is taken back: task_inner.*_need[id] -= 1 (the value;
\* the callers stop the kernel when the subtraction is checked and underflows)
need_rollback(need, t, id) ==
    [need EXCEPT ![t][id + 1] = @ - 1]

\* ------------------------------------------------ mutex: accounting
\* how adjust_*(id, 1) treats an entry of usize::MAX: its `+` wraps (TRUE) or
\* is overflow-checked and stops the kernel (FALSE).  Without overflow checks
\* it wraps; with them the build may have either.
AdjustWraps == IF overflow_checks THEN BOOLEAN ELSE {TRUE}

\* sys_mutex_lock up to `let mutex = Arc::clone(..)`: the accounting after the
\* call and how it went on: "grant" (the mechanism is entered), "dead" (the
\* detector refused, -0xDEAD) or "panic" (arithmetic overflow with checks on,
\* or an index out of bounds); at: the part of the syscall that stopped the
\* kernel (adjust_*_need, the scan, the reject path or the commit)
mutex_lock_acct(need, alloc, avail, t, mutex_id, dl, checks, adj_wraps) ==
    LET need1 == [need EXCEPT ![t] = adjust(@, mutex_id, 1)]
        d == IF dl THEN detect(avail, need1, alloc)
             ELSE [need |-> need1, alloc |-> alloc, ovf |-> FALSE,
                   finish |-> [k \in Tasks |-> TRUE]]
        need2 == [d.need EXCEPT ![t][mutex_id + 1] = @ - 1]
        alloc2 == [d.alloc EXCEPT ![t][mutex_id + 1] = @ + 1]
        avail2 == [avail EXCEPT ![mutex_id + 1] = @ - 1]
    IN IF checks /\ ~adj_wraps
             /\ AddOverflows(At(Extend(need[t], mutex_id), mutex_id), 1)
       THEN [need |-> need, alloc |-> alloc, avail |-> avail, out |-> "panic",
             at |-> "adjust"]
       ELSE IF checks /\ d.ovf
       THEN [need |-> d.need, alloc |-> d.alloc, avail |-> avail, out |-> "panic",
             at |-> "scan"]
       ELSE IF checks /\ SubUnderflows(At(d.need[t], mutex_id), 1)
       THEN [need |-> d.need, alloc |-> d.alloc, avail |-> avail, out |-> "panic",
             at |-> IF Unsafe(d) THEN "reject" ELSE "commit"]
       ELSE IF Unsafe(d)
       THEN [need |-> need_rollback(d.need, t, mutex_id), alloc |-> d.alloc,
             avail |-> avail, out |-> "dead", at |-> "none"]
       ELSE IF \/ Len(d.alloc[t]) <= mutex_id
               \/ checks /\ AddOverflows(At(d.alloc[t], mutex_id), 1)
       THEN [need |-> need2, alloc |-> d.alloc, avail |-> avail, out |-> "panic",
             at |-> "commit"]
       ELSE IF checks /\ SubUnderflows(At(avail, mutex_id), 1)
       THEN [need |-> need2, alloc |-> alloc2, avail |-> avail, out |-> "panic",
             at |-> "commit"]
       ELSE [need |-> need2, alloc |-> alloc2, avail |-> avail2, out |-> "grant",
             at |-> "none"]

\* a faulty unlock: the unit goes back to available, the caller's allocation stays
mutex_unlock_acct_keep(alloc, avail, t, mutex_id, checks) ==
    IF checks /\ AddOverflows(At(avail, mutex_id), 1)
    THEN [alloc |-> alloc, avail |-> avail, out |-> "panic"]
    ELSE [alloc |-> alloc, avail |-> [avail EXCEPT ![mutex_id + 1] = @ + 1],
          out |-> "grant"]

\* sys_mutex_unlock up to `let mutex = Arc::clone(..)`
mutex_unlock_acct(alloc, avail, t, mutex_id, checks) ==
    LET avail1 == [avail EXCEPT ![mutex_id + 1] = @ + 1]
        alloc1 == [alloc EXCEPT ![t][mutex_id + 1] = @ - 1]
    IN IF checks /\ AddOverflows(At(avail, mutex_id), 1)
       THEN [alloc |-> alloc, avail |-> avail, out |-> "panic"]
       ELSE IF \/ Len(alloc[t]) <= mutex_id
               \/ checks /\ SubUnderflows(At(alloc[t], mutex_id), 1)
       THEN [alloc |-> alloc, avail |-> avail1, out |-> "panic"]
       ELSE [alloc |-> alloc1, avail |-> avail1, out |-> "grant"]

\* ------------------------------------------------- mutex: mechanism
\* Mutex::lock would suspend (blocking) or spin (spin) the caller
MutexBusy(mutex_id) == At(mutex_list, mutex_id).locked

\* Mutex::lock by task t on behalf of syscall op(a, b): take the mutex and
\* return 0 from the syscall, or queue the task (blocking) / let it spin (spin)
mutex_lock(t, mutex_id, op, a, b) ==
    LET mtx == At(mutex_list, mutex_id)
    IN IF mtx.locked
       THEN /\ mutex_list' = [mutex_list EXCEPT ![mutex_id + 1] =
                                 IF mtx.blocking
                                 THEN [mtx EXCEPT !.wait_queue = Append(@, t)]
                                 ELSE mtx]
            /\ pc' = [pc EXCEPT ![t] =
                         [st |-> IF mtx.blocking THEN "mutex_blocked" ELSE "mutex_spin",
                          op |-> op, res |-> a, m |-> mutex_id]]
            /\ last' = Label(t, op, a, b, "suspended", 0)
       ELSE /\ mutex_list' = [mutex_list EXCEPT ![mutex_id + 1] =
                                 [mtx EXCEPT !.locked = TRUE]]
            /\ pc' = [pc EXCEPT ![t] = InUser]
            /\ last' = Label(t, op, a, b, "ret", 0)

\* Mutex::unlock: the mutex after the call and the task it wakes (-1: none)
mutex_unlock(mtx) ==
    IF mtx.wait_queue # <<>>
    THEN [mtx |-> [mtx EXCEPT !.locked = FALSE, !.wait_queue = Tail(@)],
          woken |-> Head(mtx.wait_queue)]
    ELSE [mtx |-> [mtx EXCEPT !.locked = FALSE], woken |-> -1]

\* wakeup_task(task): the task is ready again and goes on when scheduled
Wake(p, w) ==
    IF w = -1 THEN p ELSE [p EXCEPT ![w].st = "woken"]

sys_mutex_lock(t, mutex_id) ==
    /\ Running(t)
    /\ mutex_id \in 0 .. (Len(mutex_list) - 1)
    /\ \E adj_wraps \in AdjustWraps :
       \E r \in {mutex_lock_acct(m_need, m_allocation, m_available, t, mutex_id,
                                 use_dead_lock, overflow_checks, adj_wraps)} :
          /\ m_need' = r.need
          /\ m_allocation' = r.alloc
          /\ m_available' = r.avail
          /\ CASE r.out = "panic" ->
                    /\ panicked' = TRUE
                    /\ last' = Label(t, "mutex_lock", mutex_id, 0, "panic", 0)
                    /\ UNCHANGED <<mutex_list, pc>>
               [] r.out = "dead" ->
                    /\ last' = Label(t, "mutex_lock", mutex_id, 0, "ret", DEAD)
                    /\ UNCHANGED <<mutex_list, pc, panicked>>
               [] OTHER ->
                    /\ mutex_lock(t, mutex_id, "mutex_lock", mutex_id, 0)
                    /\ UNCHANGED panicked
    /\ UNCHANGED <<semaphore_list, condvar_list, s_available, s_need, s_allocation,
                   use_dead_lock, build>>

sys_mutex_unlock(t, mutex_id) ==
    /\ Running(t)
    /\ mutex_id \in 0 .. (Len(mutex_list) - 1)
    /\ LET r == mutex_unlock_acct(m_allocation, m_available, t, mutex_id,
                                  overflow_checks)
           u == mutex_unlock(At(mutex_list, mutex_id))
       IN /\ m_allocation' = r.alloc
          /\ m_available' = r.avail
          /\ IF r.out = "panic"
             THEN /\ panicked' = TRUE
                  /\ last' = Label(t, "mutex_unlock", mutex_id, 0, "panic", 0)
                  /\ UNCHANGED <<mutex_list, pc>>
             ELSE /\ mutex_list' = [mutex_list EXCEPT ![mutex_id + 1] = u.mtx]
                  /\ pc' = Wake(pc, u.woken)
                  /\ last' = Label(t, "mutex_unlock", mutex_id, 0, "ret", 0)
                  /\ UNCHANGED panicked
    /\ UNCHANGED <<semaphore_list, condvar_list, m_need, s_available, s_need,
                   s_allocation, use_dead_lock, build>>

\* a task woken from a mutex wait queue, or spinning, runs Mutex::lock again
mutex_lock_retry(t) ==
    /\ ~panicked
    /\ t \in Tasks
    /\ pc[t].op \in {"mutex_lock", "condvar_wait"}
    /\ \/ pc[t].st = "woken"
       \/ pc[t].st = "mutex_spin" /\ ~MutexBusy(pc[t].m)
    /\ mutex_lock(t, pc[t].m, pc[t].op, pc[t].res,
                  IF pc[t].op = "mutex_lock" THEN 0 ELSE pc[t].m)
    /\ UNCHANGED <<semaphore_list, condvar_list, acct, use_dead_lock, panicked, build>>

\* --------------------------------------------- semaphore: accounting
\* sys_semaphore_down up to `let sem = Arc::clone(..)`
semaphore_down_acct(need, alloc, avail, t, sem_id, dl, checks, adj_wraps) ==
    LET need1 == [need EXCEPT ![t] = adjust(@, sem_id, 1)]
        d == IF dl THEN detect(avail, need1, alloc)
             ELSE [need |-> need1, alloc |-> alloc, ovf |-> FALSE,
                   finish |-> [k \in Tasks |-> TRUE]]
        need2 == [d.need EXCEPT ![t][sem_id + 1] = @ - 1]
        alloc2 == [d.alloc EXCEPT ![t] = adjust(@, sem_id, 1)]
        avail2 == [avail EXCEPT ![sem_id + 1] = @ - 1]
    IN IF checks /\ ~adj_wraps
             /\ AddOverflows(At(Extend(need[t], sem_id), sem_id), 1)
       THEN [need |-> need, alloc |-> alloc, avail |-> avail, out |-> "panic",
             at |-> "adjust"]
       ELSE IF checks /\ d.ovf
       THEN [need |-> d.need, alloc |-> d.alloc, avail |-> avail, out |-> "panic",
             at |-> "scan"]
       ELSE IF Unsafe(d)
       THEN IF checks /\ SubUnderflows(At(d.need[t], sem_id), 1)
            THEN [need |-> d.need, alloc |-> d.alloc, avail |-> avail, out |-> "panic",
             at |-> "reject"]
            ELSE [need |-> need_rollback(d.need, t, sem_id), alloc |-> d.alloc,
                  avail |-> avail, out |-> "dead", at |-> "none"]
       ELSE IF UGt(At(avail, sem_id), 0)
       THEN IF checks /\ SubUnderflows(At(d.need[t], sem_id), 1)
            THEN [need |-> d.need, alloc |-> d.alloc, avail |-> avail, out |-> "panic",
             at |-> "commit"]
            ELSE IF checks /\ ~adj_wraps
                      /\ AddOverflows(At(Extend(d.alloc[t], sem_id), sem_id), 1)
            THEN [need |-> need2, alloc |-> d.alloc, avail |-> avail, out |-> "panic",
             at |-> "commit"]
            ELSE [need |-> need2, alloc |-> alloc2, avail |-> avail2, out |-> "grant",
             at |-> "none"]
       ELSE [need |-> d.need, alloc |-> d.alloc, avail |-> avail, out |-> "grant",
             at |-> "none"]

\* sys_semaphore_up up to sem.up()
semaphore_up_acct(alloc, avail, t, sem_id, checks) ==
    LET avail1 == [avail EXCEPT ![sem_id + 1] = @ + 1]
        alloc1 == [alloc EXCEPT ![t][sem_id + 1] = @ - 1]
    IN IF checks /\ AddOverflows(At(avail, sem_id), 1)
       THEN [alloc |-> alloc, avail |-> avail, out |-> "panic"]
       ELSE IF \/ Len(alloc[t]) <= sem_id
               \/ checks /\ SubUnderflows(At(alloc[t], sem_id), 1)
       THEN [alloc |-> alloc, avail |-> avail1, out |-> "panic"]
       ELSE [alloc |-> alloc1, avail |-> avail1, out |-> "grant"]

\* ---------------------------------------------- semaphore: mechanism
\* Semaphore::down: the count goes down; below zero the caller is queued
semaphore_down(sem, t) ==
    IF sem.count - 1 < 0
    THEN [sem EXCEPT !.count = @ - 1, !.wait_queue = Append(@, t)]
    ELSE [sem EXCEPT !.count = @ - 1]

\* Semaphore::up: the count goes up and one queued task, if any, is woken
semaphore_up(sem) ==
    IF sem.wait_queue # <<>>
    THEN [sem |-> [sem EXCEPT !.count = @ + 1, !.wait_queue = Tail(@)],
          woken |-> Head(sem.wait_queue)]
    ELSE [sem |-> [sem EXCEPT !.count = @ + 1], woken |-> -1]

sys_semaphore_down(t, sem_id) ==
    /\ Running(t)
    /\ sem_id \in 0 .. (Len(semaphore_list) - 1)
    /\ \E adj_wraps \in AdjustWraps :
       \E r \in {semaphore_down_acct(s_need, s_allocation, s_available, t, sem_id,
                                     use_dead_lock, overflow_checks, adj_wraps)} :
       LET sem == At(semaphore_list, sem_id)
       IN /\ s_need' = r.need
          /\ s_allocation' = r.alloc
          /\ s_available' = r.avail
          /\ CASE r.out = "panic" ->
                    /\ panicked' = TRUE
                    /\ last' = Label(t, "semaphore_down", sem_id, 0, "panic", 0)
                    /\ UNCHANGED <<semaphore_list, pc>>
               [] r.out = "dead" ->
                    /\ last' = Label(t, "semaphore_down", sem_id, 0, "ret", DEAD)
                    /\ UNCHANGED <<semaphore_list, pc, panicked>>
               [] OTHER ->
                    /\ semaphore_list' = [semaphore_list EXCEPT ![sem_id + 1] =
                                             semaphore_down(sem, t)]
                    /\ IF sem.count - 1 < 0
                       THEN /\ pc' = [pc EXCEPT ![t] =
                                        [st |-> "sem_blocked", op |-> "semaphore_down",
                                         res |-> sem_id, m |-> 0]]
                            /\ last' = Label(t, "semaphore_down", sem_id, 0,
                                             "suspended", 0)
                       ELSE /\ pc' = pc
                            /\ last' = Label(t, "semaphore_down", sem_id, 0, "ret", 0)
                    /\ UNCHANGED panicked
    /\ UNCHANGED <<mutex_list, condvar_list, m_available, m_need, m_allocation,
                   use_dead_lock, build>>

sys_semaphore_up(t, sem_id) ==
    /\ Running(t)
    /\ sem_id \in 0 .. (Len(semaphore_list) - 1)
    /\ LET r == semaphore_up_acct(s_allocation, s_available, t, sem_id,
                                  overflow_checks)
           u == semaphore_up(At(semaphore_list, sem_id))
       IN /\ s_allocation' = r.alloc
          /\ s_available' = r.avail
          /\ IF r.out = "panic"
             THEN /\ panicked' = TRUE
                  /\ last' = Label(t, "semaphore_up", sem_id, 0, "panic", 0)
                  /\ UNCHANGED <<semaphore_list, pc>>
             ELSE /\ semaphore_list' = [semaphore_list EXCEPT ![sem_id + 1] = u.sem]
                  /\ pc' = Wake(pc, u.woken)
                  /\ last' = Label(t, "semaphore_up", sem_id, 0, "ret", 0)
                  /\ UNCHANGED panicked
    /\ UNCHANGED <<mutex_list, condvar_list, m_available, m_need, m_allocation,
                   s_need, use_dead_lock, build>>

\* a task woken from a semaphore's wait queue returns from sem.down() and from
\* the syscall
semaphore_down_return(t) ==
    /\ ~panicked
    /\ t \in Tasks
    /\ pc[t].st = "woken"
    /\ pc[t].op = "semaphore_down"
    /\ pc' = [pc EXCEPT ![t] = InUser]
    /\ last' = Label(t, "semaphore_down", pc[t].res, 0, "ret", 0)
    /\ UNCHANGED <<mech, acct, use_dead_lock, panicked, build>>

\* ------------------------------------------------------------- condvar
\* sys_condvar_signal: Condvar::signal wakes the first queued task, if any
sys_condvar_signal(t, condvar_id) ==
    /\ Running(t)
    /\ condvar_id \in 0 .. (Len(condvar_list) - 1)
    /\ LET cv == At(condvar_list, condvar_id)
       IN IF cv.wait_queue # <<>>
          THEN /\ condvar_list' = [condvar_list EXCEPT ![condvar_id + 1] =
                                      [cv EXCEPT !.wait_queue = Tail(@)]]
               /\ pc' = Wake(pc, Head(cv.wait_queue))
          ELSE UNCHANGED <<condvar_list, pc>>
    /\ last' = Label(t, "condvar_signal", condvar_id, 0, "ret", 0)
    /\ UNCHANGED <<mutex_list, semaphore_list, acct, use_dead_lock, panicked, build>>

\* a faulty wait: the release of the mutex inside Condvar::wait is also booked
\* in the accounting, as sys_mutex_unlock books it
sys_condvar_wait_booked(t, condvar_id, mutex_id) ==
    /\ Running(t)
    /\ condvar_id \in 0 .. (Len(condvar_list) - 1)
    /\ mutex_id \in 0 .. (Len(mutex_list) - 1)
    /\ LET cv == At(condvar_list, condvar_id)
           u == mutex_unlock(At(mutex_list, mutex_id))
       IN /\ mutex_list' = [mutex_list EXCEPT ![mutex_id + 1] = u.mtx]
          /\ condvar_list' = [condvar_list EXCEPT ![condvar_id + 1] =
                                 [cv EXCEPT !.wait_queue = Append(@, t)]]
          /\ pc' = [Wake(pc, u.woken) EXCEPT ![t] =
                       [st |-> "cv_blocked", op |-> "condvar_wait",
                        res |-> condvar_id, m |-> mutex_id]]
    /\ m_available' = [m_available EXCEPT ![mutex_id + 1] = @ + 1]
    /\ m_allocation' = [m_allocation EXCEPT ![t] = adjust(@, mutex_id, -1)]
    /\ last' = Label(t, "condvar_wait", condvar_id, mutex_id, "suspended", 0)
    /\ UNCHANGED <<semaphore_list, m_need, s_available, s_need, s_allocation,
                   use_dead_lock, panicked, build>>

\* sys_condvar_wait: Condvar::wait(mutex) releases the mutex, queues the caller
\* on the condvar and suspends it, in one step; the woken task goes on in
\* mutex_lock_retry (mutex.lock()) and then returns 0
sys_condvar_wait(t, condvar_id, mutex_id) ==
    /\ Running(t)
    /\ condvar_id \in 0 .. (Len(condvar_list) - 1)
    /\ mutex_id \in 0 .. (Len(mutex_list) - 1)
    /\ LET cv == At(condvar_list, condvar_id)
           u == mutex_unlock(At(mutex_list, mutex_id))
       IN /\ mutex_list' = [mutex_list EXCEPT ![mutex_id + 1] = u.mtx]
          /\ condvar_list' = [condvar_list EXCEPT ![condvar_id + 1] =
                                 [cv EXCEPT !.wait_queue = Append(@, t)]]
          /\ pc' = [Wake(pc, u.woken) EXCEPT ![t] =
                       [st |-> "cv_blocked", op |-> "condvar_wait",
                        res |-> condvar_id, m |-> mutex_id]]
    /\ last' = Label(t, "condvar_wait", condvar_id, mutex_id, "suspended", 0)
    /\ UNCHANGED <<semaphore_list, acct, use_dead_lock, panicked, build>>

\* --------------------------------------------------------------- sleep
\* the durations passed to sleep: 1 ms and usize::MAX ms (-1)
SleepMs == {1, -1}

\* the values get_time_ms() returns
TimeMs == 0 .. 1

\* sys_sleep(ms) at time now: expire_ms = get_time_ms() + ms, which overflows
\* for now + ms above usize::MAX; then add_timer and
\* block_current_and_run_next(): the caller is suspended
sys_sleep(t, ms, now) ==
    /\ Running(t)
    /\ IF overflow_checks /\ AddOverflows(now, ms)
       THEN /\ panicked' = TRUE
            /\ pc' = pc
            /\ last' = Label(t, "sleep", ms, 0, "panic", 0)
       ELSE /\ panicked' = panicked
            /\ pc' = [pc EXCEPT ![t] =
                         [st |-> "sleeping", op |-> "sleep", res |-> ms, m |-> 0]]
            /\ last' = Label(t, "sleep", ms, 0, "suspended", 0)
    /\ UNCHANGED <<mech, acct, use_dead_lock, build>>

\* the timer expires: the task is woken, scheduled again and returns 0 from
\* sys_sleep
timer_wake(t) ==
    /\ ~panicked
    /\ t \in Tasks
    /\ pc[t].st = "sleeping"
    /\ pc' = [pc EXCEPT ![t] = InUser]
    /\ last' = Label(t, "sleep", pc[t].res, 0, "ret", 0)
    /\ UNCHANGED <<mech, acct, use_dead_lock, panicked, build>>

\* ------------------------------------------------- any call, any task
NoVec == [k \in Tasks |-> <<>>]

InitKernel ==
    /\ overflow_checks \in BOOLEAN
    /\ panicked = FALSE
    /\ use_dead_lock = FALSE
    /\ mutex_list = <<>>
    /\ semaphore_list = <<>>
    /\ condvar_list = <<>>
    /\ m_available = <<>>
    /\ s_available = <<>>
    /\ m_need = NoVec
    /\ m_allocation = NoVec
    /\ s_need = NoVec
    /\ s_allocation = NoVec
    /\ pc = [k \in Tasks |-> InUser]
    /\ last = Label(0, "none", 0, 0, "ret", 0)
    /\ shared = 0
    /\ observed = -1

Init ==
    /\ ntasks \in 1 .. MaxTasks
    /\ scenario = "free"
    /\ script = [k \in Tasks |-> <<>>]
    /\ InitKernel

MutexIds == 0 .. (Len(mutex_list) - 1)
SemIds == 0 .. (Len(semaphore_list) - 1)
CondvarIds == 0 .. (Len(condvar_list) - 1)

\* the model's range: the entries of the accounting stay within +-ValBound
InRange(need, alloc, avail) ==
    /\ \A i \in DOMAIN avail : avail[i] \in (-ValBound) .. ValBound
    /\ \A k \in DOMAIN need : \A i \in DOMAIN need[k] :
           need[k][i] \in (-ValBound) .. ValBound
    /\ \A k \in DOMAIN alloc : \A i \in DOMAIN alloc[k] :
           alloc[k][i] \in (-ValBound) .. ValBound

Bounded ==
    /\ InRange(m_need', m_allocation', m_available')
    /\ InRange(s_need', s_allocation', s_available')
    /\ UNCHANGED user

Next ==
    \E t \in 0 .. (MaxTasks - 1) :
        \/ \E blocking \in BOOLEAN :
               Len(mutex_list) < MaxMutex /\ sys_mutex_create(t, blocking) /\ Bounded
        \/ \E mutex_id \in MutexIds : sys_mutex_lock(t, mutex_id) /\ Bounded
        \/ \E mutex_id \in MutexIds : sys_mutex_unlock(t, mutex_id) /\ Bounded
        \/ mutex_lock_retry(t) /\ Bounded
        \/ \E res_count \in 0 .. MaxCount :
               Len(semaphore_list) < MaxSem /\ sys_semaphore_create(t, res_count) /\ Bounded
        \/ \E sem_id \in SemIds : sys_semaphore_up(t, sem_id) /\ Bounded
        \/ \E sem_id \in SemIds : sys_semaphore_down(t, sem_id) /\ Bounded
        \/ semaphore_down_return(t) /\ Bounded
        \/ Len(condvar_list) < MaxCondvar /\ sys_condvar_create(t) /\ Bounded
        \/ \E condvar_id \in CondvarIds : sys_condvar_signal(t, condvar_id) /\ Bounded
        \/ \E condvar_id \in CondvarIds : \E mutex_id \in MutexIds :
               sys_condvar_wait(t, condvar_id, mutex_id) /\ Bounded
        \/ \E enabled \in 0 .. 2 : sys_enable_deadlock_detect(t, enabled) /\ Bounded
        \/ \E ms \in SleepMs : \E now \in TimeMs : sys_sleep(t, ms, now) /\ Bounded
        \/ timer_wake(t) /\ Bounded

Spec == Init /\ [][Next]_vars

\* ----------------------------------- creation among calls, more resources
\* Up to MaxCreate resources of each class, created by any task at any time
\* between mutex_lock / mutex_unlock calls (detection disabled).
NextCreate ==
    \E t \in 0 .. (MaxTasks - 1) :
        \/ \E blocking \in BOOLEAN :
               Len(mutex_list) < MaxCreate /\ sys_mutex_create(t, blocking) /\ Bounded
        \/ \E res_count \in 0 .. MaxCount :
               Len(semaphore_list) < MaxCreate
                   /\ sys_semaphore_create(t, res_count) /\ Bounded
        \/ Len(condvar_list) < MaxCreate /\ sys_condvar_create(t) /\ Bounded
        \/ \E mutex_id \in MutexIds : sys_mutex_lock(t, mutex_id) /\ Bounded
        \/ \E mutex_id \in MutexIds : sys_mutex_unlock(t, mutex_id) /\ Bounded
        \/ mutex_lock_retry(t) /\ Bounded

SpecCreate == Init /\ [][NextCreate]_vars

\* ------------------------------------------------- the spec's scenarios
\* Each task runs a fixed sequence of calls; the tasks interleave freely.
\* Task 0 also makes the setup calls.  A call on an id that is not created
\* yet is not taken (the task has not got the id yet).
C(op, a, b) == [op |-> op, a |-> a, b |-> b]

Bit(x) == IF x THEN 1 ELSE 0

\* enable_deadlock_detect(1) first, when the scenario runs with detection
Detect(e) == IF e THEN <<C("enable_deadlock_detect", 1, 0)>> ELSE <<>>

\* Scenario A: one task, one blocking mutex, detection disabled
ScriptA ==
    <<  <<C("mutex_create", 1, 0), C("mutex_lock", 0, 0), C("mutex_unlock", 0, 0)>>  >>

\* Scenario B: detection enabled; task 0 takes mutex 0 then 1, task 1 takes 1 then 0
ScriptB(blocking) ==
    <<  <<C("enable_deadlock_detect", 1, 0),
          C("mutex_create", Bit(blocking), 0), C("mutex_create", Bit(blocking), 0),
          C("mutex_lock", 0, 0), C("mutex_lock", 1, 0)>>,
        <<C("mutex_lock", 1, 0), C("mutex_lock", 0, 0)>>  >>

\* Scenario C: a semaphore of count 2, three tasks each down then up
ScriptC(e) ==
    <<  Detect(e) \o <<C("semaphore_create", 2, 0),
                       C("semaphore_down", 0, 0), C("semaphore_up", 0, 0)>>,
        <<C("semaphore_down", 0, 0), C("semaphore_up", 0, 0)>>,
        <<C("semaphore_down", 0, 0), C("semaphore_up", 0, 0)>>  >>

\* Scenario D: task 0 is the consumer, task 1 the producer
ScriptD(blocking, e) ==
    <<  Detect(e) \o <<C("condvar_create", 0, 0), C("mutex_create", Bit(blocking), 0),
                       C("mutex_lock", 0, 0), C("condvar_wait", 0, 0),
                       C("read", 0, 0), C("mutex_unlock", 0, 0)>>,
        <<C("mutex_lock", 0, 0), C("write", 0, 0),
          C("condvar_signal", 0, 0), C("mutex_unlock", 0, 0)>>  >>

\* Scenario E: Scenario B replayed after enable_deadlock_detect(0)
ScriptE ==
    <<  <<C("enable_deadlock_detect", 1, 0), C("enable_deadlock_detect", 0, 0),
          C("mutex_create", 1, 0), C("mutex_create", 1, 0),
          C("mutex_lock", 0, 0), C("mutex_lock", 1, 0)>>,
        <<C("mutex_lock", 1, 0), C("mutex_lock", 0, 0)>>  >>

\* a tuple of per-task scripts as a function of the task index (from 0)
PerTask(scripts) == [k \in 0 .. (Len(scripts) - 1) |-> scripts[k + 1]]

InitScenario ==
    /\ \E blocking \in BOOLEAN, e \in BOOLEAN :
         \/ scenario = "A" /\ script = PerTask(ScriptA)
         \/ scenario = "B" /\ script = PerTask(ScriptB(blocking))
         \/ scenario = "C" /\ script = PerTask(ScriptC(e))
         \/ scenario = "D" /\ script = PerTask(ScriptD(blocking, e))
         \/ scenario = "E" /\ script = PerTask(ScriptE)
    /\ ntasks = Cardinality(DOMAIN script)
    /\ InitKernel

\* the task indices of the scenarios (Scenario C has three tasks)
ScenarioTasks == 0 .. 2

\* task t's next call is op: the call is made and leaves the script
Scripted(t, op) ==
    /\ t \in Tasks
    /\ script[t] # <<>>
    /\ Head(script[t]).op = op
    /\ script' = [script EXCEPT ![t] = Tail(@)]
    /\ UNCHANGED scenario

Arg(t) == Head(script[t]).a
Arg2(t) == Head(script[t]).b

\* the producer's update of the shared datum, the consumer's read of it
user_write(t) ==
    /\ Running(t)
    /\ shared' = 1
    /\ last' = Label(t, "write", 0, 0, "ret", 0)
    /\ UNCHANGED <<observed, mech, acct, pc, use_dead_lock, panicked, build>>

user_read(t) ==
    /\ Running(t)
    /\ observed' = shared
    /\ last' = Label(t, "read", 0, 0, "ret", 0)
    /\ UNCHANGED <<shared, mech, acct, pc, use_dead_lock, panicked, build>>

Kernel == UNCHANGED <<shared, observed>>

NextScenario ==
    \E t \in ScenarioTasks :
        \/ Scripted(t, "mutex_create") /\ sys_mutex_create(t, Arg(t) = 1) /\ Kernel
        \/ Scripted(t, "mutex_lock") /\ sys_mutex_lock(t, Arg(t)) /\ Kernel
        \/ Scripted(t, "mutex_unlock") /\ sys_mutex_unlock(t, Arg(t)) /\ Kernel
        \/ mutex_lock_retry(t) /\ UNCHANGED user
        \/ Scripted(t, "semaphore_create") /\ sys_semaphore_create(t, Arg(t)) /\ Kernel
        \/ Scripted(t, "semaphore_up") /\ sys_semaphore_up(t, Arg(t)) /\ Kernel
        \/ Scripted(t, "semaphore_down") /\ sys_semaphore_down(t, Arg(t)) /\ Kernel
        \/ semaphore_down_return(t) /\ UNCHANGED user
        \/ Scripted(t, "condvar_create") /\ sys_condvar_create(t) /\ Kernel
        \/ Scripted(t, "condvar_signal") /\ sys_condvar_signal(t, Arg(t)) /\ Kernel
        \/ Scripted(t, "condvar_wait") /\ sys_condvar_wait(t, Arg(t), Arg2(t)) /\ Kernel
        \/ Scripted(t, "enable_deadlock_detect")
               /\ sys_enable_deadlock_detect(t, Arg(t)) /\ Kernel
        \/ Scripted(t, "write") /\ user_write(t)
        \/ Scripted(t, "read") /\ user_read(t)

SpecScenario == InitScenario /\ [][NextScenario]_vars

\* ---------------------------------------------------------------- claims
Suspended(t) == pc[t].st \in {"mutex_blocked", "mutex_spin", "sem_blocked", "cv_blocked"}

\* Scenario B / E just before the call that closes the cycle: task 0 holds
\* mutex 0 and is suspended in mutex_lock(1), task 1 holds mutex 1 (its
\* mutex_lock(1) returned) and has mutex_lock(0) still to call
CycleOpen ==
    /\ ~panicked
    /\ script[0] = <<>>
    /\ pc[0].st \in {"mutex_blocked", "mutex_spin"}
    /\ pc[0].op = "mutex_lock"
    /\ pc[0].m = 1
    /\ pc[1].st = "user"
    /\ script[1] = <<C("mutex_lock", 0, 0)>>

\* C1: Scenario B with detection enabled: the mutex_lock(0) of task 1 that would
\* complete the circular wait returns -0xDEAD and task 1 is not suspended.
C1_CycleRefused ==
    [][(scenario = "B" /\ CycleOpen /\ script'[1] = <<>>)
          => (last'.phase = "ret" /\ last'.ret = DEAD /\ pc'[1].st = "user")]_vars

\* a call that the detector refused has just returned
Refused == last.phase = "ret" /\ last.ret = DEAD

\* C2: a mutex_lock / semaphore_down that returns -0xDEAD leaves every need,
\* allocation and available entry, the mutexes, semaphores and condvars (lock
\* state, counter, wait queues) and every task's position as they were; the
\* caller is back in user mode.
C2_RefusedCallHasNoEffect ==
    [][Refused' =>
          /\ last'.op \in {"mutex_lock", "semaphore_down"}
          /\ acct' = acct
          /\ mech' = mech
          /\ pc' = pc
          /\ pc'[last'.task].st = "user"]_vars

C2_Witness ==
    /\ Refused
    /\ last.op = "semaphore_down"
    /\ \E k \in Tasks : k # last.task /\ At(s_allocation[k], last.a) > 0

\* the step creates a resource of the class of table list
Creates(op, list) == last'.op = op /\ list' # list

\* the new column r of one class: every task's need and allocation cover r
\* and are 0 there, available covers r and holds n, the table covers r
NewColumn(r, n, list, need, alloc, avail) ==
    /\ Len(list) > r
    /\ ~IsNone(At(list, r))
    /\ Len(avail) > r
    /\ At(avail, r) = n
    /\ \A k \in Tasks :
         /\ Len(need[k]) > r /\ At(need[k], r) = 0
         /\ Len(alloc[k]) > r /\ At(alloc[k], r) = 0

\* C7: right after mutex_create / semaphore_create(n) returns id r, every task
\* of the process has need[r] = 0 and allocation[r] = 0 in that class and
\* available[r] is 1 for a mutex and n for a semaphore; table and vectors
\* cover r.
C7_CreationInitialisesColumn ==
    [][/\ Creates("mutex_create", mutex_list) =>
             NewColumn(last'.ret, 1, mutex_list', m_need', m_allocation', m_available')
       /\ Creates("semaphore_create", semaphore_list) =>
             NewColumn(last'.ret, last'.a, semaphore_list', s_need', s_allocation',
                       s_available')]_vars

\* a second mutex has been created while a task holds the first
C7_Witness ==
    /\ last.op = "mutex_create"
    /\ last.ret = 1
    /\ ntasks > 1
    /\ \E k \in Tasks : At(m_allocation[k], 0) = 1
    /\ m_available = <<0, 1>>

\* the lowest index whose slot is empty, or the table length
LowestEmpty(r, list) ==
    /\ r \in 0 .. Len(list)
    /\ \A i \in 0 .. (r - 1) : ~IsNone(At(list, i))
    /\ r < Len(list) => IsNone(At(list, r))

\* the instances a table holds stay where they are (what tells one instance
\* from another: the kind of a mutex, the creation count of a semaphore)
SameInstances ==
    /\ \A i \in 1 .. Len(mutex_list) :
           Len(mutex_list') >= i /\ mutex_list'[i].blocking = mutex_list[i].blocking
    /\ \A i \in 1 .. Len(semaphore_list) :
           Len(semaphore_list') >= i
               /\ semaphore_list'[i].res_count = semaphore_list[i].res_count
    /\ \A i \in 1 .. Len(condvar_list) :
           Len(condvar_list') >= i /\ ~IsNone(condvar_list'[i])

\* C8: each creation returns the lowest index whose slot is empty, or the
\* table length; the k-th creation of a class returns k - 1 (as many instances
\* as the class had before); a creation in one class leaves the tables of the
\* other two alone; an id keeps referring to the same instance.
C8_LowestFreeId ==
    [][/\ Creates("mutex_create", mutex_list) =>
             /\ LowestEmpty(last'.ret, mutex_list)
             /\ last'.ret = Len(mutex_list)
             /\ Len(mutex_list') = Len(mutex_list) + 1
             /\ At(mutex_list', last'.ret).blocking = (last'.a = 1)
             /\ UNCHANGED <<semaphore_list, condvar_list>>
       /\ Creates("semaphore_create", semaphore_list) =>
             /\ LowestEmpty(last'.ret, semaphore_list)
             /\ last'.ret = Len(semaphore_list)
             /\ Len(semaphore_list') = Len(semaphore_list) + 1
             /\ At(semaphore_list', last'.ret).res_count = last'.a
             /\ UNCHANGED <<mutex_list, condvar_list>>
       /\ Creates("condvar_create", condvar_list) =>
             /\ LowestEmpty(last'.ret, condvar_list)
             /\ last'.ret = Len(condvar_list)
             /\ Len(condvar_list') = Len(condvar_list) + 1
             /\ UNCHANGED <<mutex_list, semaphore_list>>
       /\ last'.op \in {"mutex_create", "semaphore_create", "condvar_create"} =>
             \/ Creates("mutex_create", mutex_list)
             \/ Creates("semaphore_create", semaphore_list)
             \/ Creates("condvar_create", condvar_list)
       /\ SameInstances]_vars

\* the second condvar got id 1 while two mutexes and a semaphore exist
C8_Witness ==
    /\ last.op = "condvar_create"
    /\ last.ret = 1
    /\ Len(mutex_list) = 2
    /\ Len(semaphore_list) = 1

\* the step is task t's call mutex_lock(r)
LockCall(t, r) ==
    /\ Running(t)
    /\ last'.task = t
    /\ last'.op = "mutex_lock"
    /\ last'.a = r

\* C10: detection disabled, mutex r held by nobody (unlocked, available[r] = 1):
\* mutex_lock(r) returns 0 without suspending the caller, and the mutex_unlock(r)
\* that follows it returns 0 and puts available, the caller's allocation and
\* need and every other task's vectors back to their values before the lock.
C10_UncontendedRoundTrip ==
    [][\A t \in Tasks : \A r \in MutexIds :
          (LockCall(t, r) /\ ~use_dead_lock /\ ~MutexBusy(r) /\ At(m_available, r) = 1)
          => LET u == mutex_unlock_acct(m_allocation', m_available', t, r,
                                        overflow_checks)
             IN /\ last'.phase = "ret"
                /\ last'.ret = 0
                /\ pc'[t].st = "user"
                /\ At(m_available', r) = 0
                /\ At(m_allocation'[t], r) = At(m_allocation[t], r) + 1
                /\ u.out = "grant"
                /\ u.avail = m_available
                /\ u.alloc = m_allocation
                /\ m_need' = m_need
                /\ <<s_available, s_need, s_allocation>>' =
                       <<s_available, s_need, s_allocation>>]_vars

\* the unlock of a round trip has returned: detection disabled, the mutex free
\* again and the caller holding nothing of it
C10_Witness ==
    /\ last.op = "mutex_unlock"
    /\ last.phase = "ret"
    /\ last.ret = 0
    /\ ~use_dead_lock
    /\ ~MutexBusy(last.a)
    /\ At(m_available, last.a) = 1
    /\ \A k \in Tasks : At(m_allocation[k], last.a) = 0

\* ------------------------------------------------ claims on the scenarios
\* the step is task t making the call op of its script
Calls(t, op) ==
    /\ script[t] # <<>>
    /\ script'[t] = Tail(script[t])
    /\ last'.task = t
    /\ last'.op = op

\* the sum of a sequence of entries
RECURSIVE Sum(_)
Sum(vec) == IF vec = <<>> THEN 0 ELSE Head(vec) + Sum(Tail(vec))

\* the entries of all tasks for resource r, in task order
Column(table, r) == [k \in 1 .. ntasks |-> At(table[k - 1], r)]

\* allocation[.][r] and available[r] are numbers below the wrap and add up to
\* capacity (an entry that wrapped is 2^64 minus a small number, so a sum of
\* natural numbers that contains one is not the capacity)
Conserved(alloc, avail, r, capacity) ==
    /\ ~IsWrapped(At(avail, r))
    /\ \A k \in Tasks : ~IsWrapped(At(alloc[k], r))
    /\ Sum(Column(alloc, r)) + At(avail, r) = capacity

\* no call is in progress: every task is in user mode and the kernel runs
Quiescent == ~panicked /\ \A k \in Tasks : pc[k].st = "user"

\* C3: at every point where no syscall is in flight, for every mutex r the
\* allocations of all tasks plus m_available[r] are 1, and for every semaphore
\* r the allocations plus s_available[r] are the count given at creation.
C3_Conservation ==
    Quiescent =>
        /\ \A r \in MutexIds : Conserved(m_allocation, m_available, r, MutexCapacity)
        /\ \A r \in SemIds :
               Conserved(s_allocation, s_available, r, At(semaphore_list, r).res_count)

\* Scenario E: both tasks hold their first mutex (each mutex_lock returned 0)
\* and each has the mutex_lock of the other's mutex still to call
BothHoldOne ==
    /\ scenario = "E"
    /\ ~panicked
    /\ pc[0].st = "user" /\ script[0] = <<C("mutex_lock", 1, 0)>>
    /\ pc[1].st = "user" /\ script[1] = <<C("mutex_lock", 0, 0)>>

\* C4: while use_dead_lock is false no mutex_lock / semaphore_down returns
\* -0xDEAD, and in Scenario E (the circular wait of Scenario B replayed after
\* enable_deadlock_detect(0)) the second mutex_lock of either task suspends its
\* caller in the blocking mutex, so that both tasks end suspended.
C4_DisabledNeverRefuses ==
    [][/\ (~use_dead_lock /\ \E k \in Tasks :
               Calls(k, "mutex_lock") \/ Calls(k, "semaphore_down"))
          => ~Refused'
       /\ (\/ BothHoldOne
           \/ scenario = "E" /\ CycleOpen) /\ script' # script
          => /\ last'.phase = "suspended"
             /\ pc'[last'.task].st = "mutex_blocked"]_vars

\* the tasks between the return of their semaphore_down and their semaphore_up
Holders ==
    {k \in Tasks : pc[k].st = "user" /\ script[k] = <<C("semaphore_up", 0, 0)>>}

\* C5: Scenario C (count 2, three tasks, each down then up), either detection
\* mode: never more than 2 tasks hold the semaphore, a semaphore_down made
\* while two tasks hold it suspends its caller, no call returns -0xDEAD, and
\* every semaphore_up and every resumed semaphore_down returns 0.
C5_CountTwoThreeTasks ==
    [][scenario = "C" =>
          /\ Cardinality(Holders') <= 2
          /\ \A k \in Tasks :
                /\ (Calls(k, "semaphore_down") /\ Cardinality(Holders) = 2)
                   => (last'.phase = "suspended" /\ pc'[k].st = "sem_blocked")
                /\ (Calls(k, "semaphore_down") /\ Cardinality(Holders) < 2)
                   => (last'.phase = "ret" /\ last'.ret = 0)
                /\ Calls(k, "semaphore_up")
                   => (last'.phase = "ret" /\ last'.ret = 0)]_vars

\* need[t][r] + allocation[t][r] is a number below the wrap and within capacity
WithinCapacity(need, alloc, t, r, capacity) ==
    /\ ~IsWrapped(At(need[t], r))
    /\ ~IsWrapped(At(alloc[t], r))
    /\ At(need[t], r) + At(alloc[t], r) <= capacity

\* C6: while detection is enabled, for every task t and every resource r,
\* need[t][r] + allocation[t][r] <= capacity[r] (1 for a mutex, the creation
\* count for a semaphore).
C6_NeedPlusAllocation ==
    (use_dead_lock /\ ~panicked) =>
        \A t \in Tasks :
            /\ \A r \in MutexIds :
                   WithinCapacity(m_need, m_allocation, t, r, MutexCapacity)
            /\ \A r \in SemIds :
                   WithinCapacity(s_need, s_allocation, t, r,
                                  At(semaphore_list, r).res_count)

\* Scenario D: the consumer (task 0) has called condvar_wait(0, 0) holding
\* mutex 0 and waits on the condvar
ConsumerWaits ==
    /\ scenario = "D"
    /\ ~panicked
    /\ pc[0].st = "cv_blocked"

\* C9: Scenario D: after the consumer's condvar_wait released the mutex and
\* suspended it, the producer's mutex_lock, condvar_signal and mutex_unlock
\* return 0, the signal wakes the consumer, and the consumer's read after
\* condvar_wait returned observes the producer's write.
C9_ProducerConsumer ==
    [][scenario = "D" =>
          /\ (ConsumerWaits /\ Calls(1, "mutex_lock"))
             => (last'.phase = "ret" /\ last'.ret = 0 /\ pc'[1].st = "user")
          /\ (ConsumerWaits /\ Calls(1, "condvar_signal"))
             => (last'.ret = 0 /\ pc'[0].st = "woken")
          /\ Calls(1, "mutex_unlock")
             => (last'.phase = "ret" /\ last'.ret = 0)
          /\ Calls(0, "read") => observed' = 1]_vars

\* ------------------------------------------- claims on the flag and frames
\* the step is a call of enable_deadlock_detect
EnableCall == last'.op = "enable_deadlock_detect"

\* C11: enable_deadlock_detect(1) sets use_dead_lock and returns 0,
\* enable_deadlock_detect(0) clears it and returns 0, any other argument
\* returns -1 and leaves the flag as it was; the call changes nothing else, and
\* no other step changes the flag.
C11_FlagOnlyBySyscall ==
    [][/\ EnableCall =>
            /\ last'.phase = "ret"
            /\ last'.a = 1 => (use_dead_lock' /\ last'.ret = 0)
            /\ last'.a = 0 => (~use_dead_lock' /\ last'.ret = 0)
            /\ last'.a \notin {0, 1}
                  => (last'.ret = -1 /\ use_dead_lock' = use_dead_lock)
            /\ acct' = acct /\ mech' = mech /\ pc' = pc
            /\ panicked' = panicked
       /\ use_dead_lock' # use_dead_lock => EnableCall]_vars

\* enable_deadlock_detect(2) has returned -1 with detection left enabled
C11_Witness ==
    /\ last.op = "enable_deadlock_detect"
    /\ last.a = 2
    /\ last.ret = -1
    /\ use_dead_lock

\* every entry of a vector is a number below the wrap
AllNatural(vec) == \A i \in 1 .. Len(vec) : ~IsWrapped(vec[i])

\* C12: in every reachable state all need, allocation and available entries
\* are non-negative: no syscall takes 1 from an entry that is 0 (which wraps
\* the entry, or panics the kernel when overflow is checked).
C12_NoUnderflow ==
    /\ ~panicked
    /\ AllNatural(m_available)
    /\ AllNatural(s_available)
    /\ \A k \in Tasks :
           /\ AllNatural(m_need[k]) /\ AllNatural(m_allocation[k])
           /\ AllNatural(s_need[k]) /\ AllNatural(s_allocation[k])

\* the step is task t entering the syscall op from user mode
Call(t, op) ==
    /\ Running(t)
    /\ last'.task = t
    /\ last'.op = op

\* the accounting of one class after the call is the accounting before it with
\* the caller's allocation[r] one higher and available[r] one lower (a unit
\* was there to take), need as before
Committed(need0, need1, alloc0, alloc1, avail0, avail1, t, r) ==
    /\ need1 = need0
    /\ alloc1 = [alloc0 EXCEPT ![t][r + 1] = @ + 1]
    /\ ~SubUnderflows(At(avail0, r), 1)
    /\ avail1 = [avail0 EXCEPT ![r + 1] = @ - 1]

\* C13: every mutex_lock(r) / semaphore_down(r) that is not refused changes
\* the accounting by exactly: caller's need[r] net unchanged, caller's
\* allocation[r] + 1, available[r] - 1, and nothing else.
C13_CommitOnAcceptance ==
    [][\A t \in Tasks :
          /\ (Call(t, "mutex_lock") /\ ~Refused')
             => /\ ~panicked'
                /\ Committed(m_need, m_need', m_allocation, m_allocation',
                             m_available, m_available', t, last'.a)
                /\ <<s_need, s_allocation, s_available>>' =
                       <<s_need, s_allocation, s_available>>
          /\ (Call(t, "semaphore_down") /\ ~Refused')
             => /\ ~panicked'
                /\ Committed(s_need, s_need', s_allocation, s_allocation',
                             s_available, s_available', t, last'.a)
                /\ <<m_need, m_allocation, m_available>>' =
                       <<m_need, m_allocation, m_available>>]_vars

\* ------------------------------------------------- claims on the detector
\* the natural number a usize entry holds, as <<k, r>> for k * 2^64 + r: an
\* entry that wrapped below zero holds 2^64 + r
Nat64(r) == IF r < 0 THEN <<1, r>> ELSE <<0, r>>

AddNat(x, y) == <<x[1] + y[1], x[2] + y[2]>>

\* x <= y for numbers k * 2^64 + r whose r parts are small
LeqNat(x, y) == x[1] < y[1] \/ (x[1] = y[1] /\ x[2] <= y[2])

\* task k's need is component-wise within work (work over the resources of
\* the available vector)
NeedWithin(need, k, work) ==
    \A i \in 1 .. Len(work) : LeqNat(Nat64(At(Extend(need[k], i - 1), i - 1)), work[i])

\* work plus the allocation of task k
Released(alloc, k, work) ==
    [i \in 1 .. Len(work) |->
        AddNat(work[i], Nat64(At(Extend(alloc[k], i - 1), i - 1)))]

\* some ordering of the tasks not in done lets each proceed with work plus the
\* allocations of the tasks ordered before it
RECURSIVE OrderExists(_, _, _, _)
OrderExists(need, alloc, done, work) ==
    \/ done = Tasks
    \/ \E k \in Tasks \ done :
          /\ NeedWithin(need, k, work)
          /\ OrderExists(need, alloc, done \cup {k}, Released(alloc, k, work))

\* the state is safe: an ordering of all tasks exists from work = available
Safe(available, need, alloc) ==
    OrderExists(need, alloc, {}, [i \in 1 .. Len(available) |-> Nat64(available[i])])

\* the need vectors the detector sees: the caller's request is already added
Requested(need, t, r) == [need EXCEPT ![t] = adjust(@, r, 1)]

\* C14: with detection enabled, mutex_lock / semaphore_down is accepted exactly
\* when some ordering of all tasks exists in which each task's need is within
\* available plus the allocations of the tasks before it, and is refused
\* otherwise.
C14_DetectorExact ==
    [][use_dead_lock =>
          \A t \in Tasks :
             /\ Call(t, "mutex_lock")
                => (~Refused' <=>
                      Safe(m_available, Requested(m_need, t, last'.a), m_allocation))
             /\ Call(t, "semaphore_down")
                => (~Refused' <=>
                      Safe(s_available, Requested(s_need, t, last'.a), s_allocation))]_vars

\* ------------------------------------------- guards taken by the syscalls
\* for task_id in 0..process_inner.tasks.len() { ..inner_exclusive_access() .. }
RECURSIVE task_loop(_)
task_loop(task_id) ==
    IF task_id >= ntasks THEN <<>>
    ELSE <<Acquire(TaskGuard(task_id)), Release(TaskGuard(task_id))>>
             \o task_loop(task_id + 1)

\* the part of sys_mutex_lock / sys_semaphore_down from the safety check on:
\* scan holds the guards the loop took; the caller's guard is taken again for
\* the reject test and, when accepted, once more for the commit
guards_acquire_tail(t, dl, scan, unsafe) ==
    (IF dl
     THEN scan \o <<Acquire(TaskGuard(t))>>
               \o (IF unsafe
                   THEN <<Release(TaskGuard(t)), Release(ProcessGuard), Return>>
                   ELSE <<Release(TaskGuard(t))>>)
     ELSE <<>>)
    \o (IF dl /\ unsafe THEN <<>>
        ELSE <<Acquire(TaskGuard(t)), Release(ProcessGuard), Release(TaskGuard(t)),
               Mechanism, Return>>)

\* sys_mutex_lock: process guard, then the caller's guard for adjust_m_need
guards_mutex_lock(t, dl, scan, unsafe) ==
    <<Acquire(ProcessGuard), Acquire(TaskGuard(t)), Release(TaskGuard(t))>>
        \o guards_acquire_tail(t, dl, scan, unsafe)

\* sys_semaphore_down: the caller's guard for adjust_s_need, then the process guard
guards_semaphore_down(t, dl, scan, unsafe) ==
    <<Acquire(TaskGuard(t)), Release(TaskGuard(t)), Acquire(ProcessGuard)>>
        \o guards_acquire_tail(t, dl, scan, unsafe)

\* a faulty release: drop(task_inner) is missing before the mechanism
guards_release_keep_task(t) ==
    <<Acquire(ProcessGuard), Acquire(TaskGuard(t)), Release(ProcessGuard),
      Mechanism, Return, Release(TaskGuard(t))>>

\* sys_mutex_unlock / sys_semaphore_up
guards_release(t) ==
    <<Acquire(ProcessGuard), Acquire(TaskGuard(t)), Release(ProcessGuard),
      Release(TaskGuard(t)), Mechanism, Return>>

\* sys_mutex_create / sys_semaphore_create
guards_create ==
    <<Acquire(ProcessGuard)>> \o task_loop(0) \o <<Release(ProcessGuard), Return>>

\* sys_condvar_create
guards_condvar_create == <<Acquire(ProcessGuard), Release(ProcessGuard), Return>>

\* sys_condvar_signal / sys_condvar_wait
guards_condvar == <<Acquire(ProcessGuard), Release(ProcessGuard), Mechanism, Return>>

\* sys_sleep takes no guard after its trace! statement: add_timer, then
\* block_current_and_run_next(), then the return
guards_sleep == <<Mechanism, Return>>

\* sys_enable_deadlock_detect: the guard is a temporary of the assignment
guards_enable_deadlock_detect(enabled) ==
    IF enabled \in {0, 1}
    THEN <<Acquire(ProcessGuard), Release(ProcessGuard), Return>>
    ELSE <<Return>>

\* the trace! statement at the head of a syscall: when the log level makes it
\* evaluate its arguments, the caller's task guard is taken for the tid and
\* released with the statement (sys_enable_deadlock_detect's has no arguments)
guards_trace(t, op, trace) ==
    IF trace /\ op # "enable_deadlock_detect"
    THEN <<Acquire(TaskGuard(t)), Release(TaskGuard(t))>>
    ELSE <<>>

\* sys_mutex_lock / sys_semaphore_down stopped by a panic: head is the part
\* up to the safety check, of which adjust_*_need runs after the first
\* adj_len events; at names the part that stopped the kernel.  The guards held
\* at that point stay held.
guards_acquire_panic(t, head, adj_len, dl, scan, at) ==
    CASE at = "adjust" -> SubSeq(head, 1, adj_len)
      [] at = "scan" -> head \o scan
      [] at = "reject" -> head \o scan \o <<Acquire(TaskGuard(t))>>
      [] OTHER ->
           head \o (IF dl
                    THEN scan \o <<Acquire(TaskGuard(t)), Release(TaskGuard(t))>>
                    ELSE <<>>)
                \o <<Acquire(TaskGuard(t))>>

\* the part of the syscall that stopped the kernel in the panicking step
panic_at(results, post) ==
    LET hit == {r \in results :
                   r.out = "panic" /\ <<r.need, r.alloc, r.avail>> = post}
    IN (CHOOSE r \in hit : TRUE).at

\* the guard events of a step that ends in a panic, after the trace! statement
guards_panic ==
    LET t == last'.task
        r == last'.a
        dm == detect(m_available, Requested(m_need, t, r), m_allocation)
        ds == detect(s_available, Requested(s_need, t, r), s_allocation)
    IN CASE last'.op = "mutex_lock" ->
              guards_acquire_panic(
                  t, <<Acquire(ProcessGuard), Acquire(TaskGuard(t)),
                       Release(TaskGuard(t))>>, 2, use_dead_lock,
                  IF use_dead_lock THEN dm.log ELSE <<>>,
                  panic_at({mutex_lock_acct(m_need, m_allocation, m_available, t, r,
                                            use_dead_lock, overflow_checks, adj_wraps) :
                               adj_wraps \in AdjustWraps},
                           <<m_need', m_allocation', m_available'>>))
         [] last'.op = "semaphore_down" ->
              guards_acquire_panic(
                  t, <<Acquire(TaskGuard(t)), Release(TaskGuard(t)),
                       Acquire(ProcessGuard)>>, 1, use_dead_lock,
                  IF use_dead_lock THEN ds.log ELSE <<>>,
                  panic_at({semaphore_down_acct(s_need, s_allocation, s_available, t,
                                                r, use_dead_lock, overflow_checks,
                                                adj_wraps) :
                               adj_wraps \in AdjustWraps},
                           <<s_need', s_allocation', s_available'>>))
         [] last'.op = "mutex_unlock" ->
              <<Acquire(ProcessGuard), Acquire(TaskGuard(t))>>
         [] last'.op = "semaphore_up" ->
              IF s_available' = s_available
              THEN <<Acquire(ProcessGuard)>>
              ELSE <<Acquire(ProcessGuard), Acquire(TaskGuard(t))>>
         [] OTHER -> <<>>

\* a syscall that suspends the caller in its mechanism has not returned yet
until_suspended(log, phase) ==
    IF phase = "suspended" /\ log # <<>> /\ log[Len(log)] = Return
    THEN SubSeq(log, 1, Len(log) - 1)
    ELSE log

\* the syscalls of sync.rs
Syscalls ==
    {"sleep", "mutex_create", "mutex_lock", "mutex_unlock", "semaphore_create",
     "semaphore_up", "semaphore_down", "condvar_create", "condvar_signal",
     "condvar_wait", "enable_deadlock_detect"}

\* the guard events of the step: of the syscall that last' names when a task
\* enters it from user mode, up to its return, its suspension or the panic.  A
\* resumed task is inside the mechanism call, past every guard: it returns
\* from the syscall, or is suspended again without returning.  A step of the
\* user program enters no syscall.  trace: the trace! statement evaluates its
\* arguments (log level trace).
guard_events(trace) ==
    LET t == last'.task
        r == last'.a
        dm == detect(m_available, Requested(m_need, t, r), m_allocation)
        ds == detect(s_available, Requested(s_need, t, r), s_allocation)
    IN IF last'.op \notin Syscalls THEN <<>>
       ELSE IF ~Running(t)
       THEN IF last'.phase = "ret" THEN <<Return>> ELSE <<>>
       ELSE IF last'.phase = "panic"
       THEN guards_trace(t, last'.op, trace) \o guards_panic
       ELSE guards_trace(t, last'.op, trace) \o until_suspended(
            CASE last'.op = "mutex_lock" ->
                   IF use_dead_lock
                   THEN guards_mutex_lock(t, TRUE, dm.log, Unsafe(dm))
                   ELSE guards_mutex_lock(t, FALSE, <<>>, FALSE)
              [] last'.op = "semaphore_down" ->
                   IF use_dead_lock
                   THEN guards_semaphore_down(t, TRUE, ds.log, Unsafe(ds))
                   ELSE guards_semaphore_down(t, FALSE, <<>>, FALSE)
              [] last'.op \in {"mutex_unlock", "semaphore_up"} -> guards_release(t)
              [] last'.op \in {"mutex_create", "semaphore_create"} -> guards_create
              [] last'.op = "condvar_create" -> guards_condvar_create
              [] last'.op \in {"condvar_signal", "condvar_wait"} -> guards_condvar
              [] last'.op = "sleep" -> guards_sleep
              [] last'.op = "enable_deadlock_detect" ->
                   guards_enable_deadlock_detect(last'.a), last'.phase)

\* the guards held after the first n events of log
RECURSIVE Held(_, _)
Held(log, n) ==
    IF n = 0 THEN {}
    ELSE LET h == Held(log, n - 1)
             e == log[n]
         IN CASE e.k = "acquire" -> h \cup {e.g}
              [] e.k = "release" -> h \ {e.g}
              [] OTHER -> h

\* guard g was acquired among the first n events of log
AcquiredBefore(log, n, g) == \E j \in 1 .. n : log[j] = Acquire(g)

\* C15: in every syscall and on every path, when the mechanism operation is
\* invoked and when the syscall returns (the -0xDEAD return included) the
\* caller holds neither the process guard nor a task guard, so no task is
\* suspended holding a guard.
C15_GuardsReleasedBeforeMechanism ==
    [][\A trace \in BOOLEAN : \A log \in {guard_events(trace)} :
          \A i \in 1 .. Len(log) :
             log[i].k \in {"mechanism", "return"} => Held(log, i - 1) = {}]_vars

\* a task is suspended in Mutex::lock after a safety check that accepted its call
C15_Witness ==
    /\ last.op = "mutex_lock"
    /\ last.phase = "suspended"
    /\ use_dead_lock
    /\ pc[last.task].st \in {"mutex_blocked", "mutex_spin"}

\* C16: in every syscall a task guard is acquired only after the process guard
\* has been acquired, at most one task guard is held at any moment, and no
\* guard is acquired while the syscall already holds it.
C16_GuardOrder ==
    [][\A trace \in BOOLEAN : \A log \in {guard_events(trace)} :
          \A i \in 1 .. Len(log) :
             LET e == log[i]
                 h == Held(log, i - 1)
             IN e.k = "acquire" =>
                   /\ e.g \notin h
                   /\ e.g.cls = "task" =>
                         /\ AcquiredBefore(log, i - 1, ProcessGuard)
                         /\ \A g \in h : g.cls # "task"]_vars

\* ------------------------------------------- claims on the accounting values
\* C17: for every mutex r, m_available[r] is 0 or 1, every task's
\* m_allocation[r] and m_need[r] are 0 or 1, and at most one task has
\* m_allocation[r] = 1.
C17_MutexBinary ==
    \A r \in MutexIds :
        /\ At(m_available, r) \in {0, 1}
        /\ \A k \in Tasks :
               /\ At(m_allocation[k], r) \in {0, 1}
               /\ At(m_need[k], r) \in {0, 1}
        /\ Cardinality({k \in Tasks : At(m_allocation[k], r) = 1}) <= 1

\* task t has no mutex_lock / semaphore_down in progress
NoAcquireInProgress(t) == pc[t].st = "user"

\* C18: a task with no mutex_lock / semaphore_down in progress has need[r] = 0
\* for every mutex and every semaphore r.
C18_NoStaleNeed ==
    ~panicked =>
        \A t \in Tasks :
            NoAcquireInProgress(t) =>
                /\ \A r \in MutexIds : At(m_need[t], r) = 0
                /\ \A r \in SemIds : At(s_need[t], r) = 0


\* ------------------------------------------- the detector on any state
\* the bounds of the accounting states the detector is run on
DetTasks == 3      \* tasks of the process
DetRes == 2        \* resources of the class
DetVal == 1        \* largest entry of need, allocation and available

\* a process with detection enabled, DetRes resources of one class (mutexes or
\* semaphores) and any accounting of that class within the bounds; one task
\* then makes one acquisition call
InitDetect ==
    /\ ntasks \in 1 .. DetTasks
    /\ overflow_checks \in BOOLEAN
    /\ panicked = FALSE
    /\ use_dead_lock = TRUE
    /\ condvar_list = <<>>
    /\ \E cls \in {"mutex", "semaphore"} :
       \E avail \in [1 .. DetRes -> 0 .. DetVal] :
       \E need \in [Tasks -> [1 .. DetRes -> 0 .. DetVal]] :
       \E alloc \in [Tasks -> [1 .. DetRes -> 0 .. DetVal]] :
          IF cls = "mutex"
          THEN /\ mutex_list = [i \in 1 .. DetRes |->
                                   [NewMutex(TRUE) EXCEPT !.locked = (avail[i] = 0)]]
               /\ m_available = avail
               /\ m_need = need
               /\ m_allocation = alloc
               /\ semaphore_list = <<>>
               /\ s_available = <<>>
               /\ s_need = NoVec
               /\ s_allocation = NoVec
          ELSE /\ semaphore_list = [i \in 1 .. DetRes |->
                                       [NewSemaphore(DetVal) EXCEPT !.count = avail[i]]]
               /\ s_available = avail
               /\ s_need = need
               /\ s_allocation = alloc
               /\ mutex_list = <<>>
               /\ m_available = <<>>
               /\ m_need = NoVec
               /\ m_allocation = NoVec
    /\ pc = [k \in Tasks |-> InUser]
    /\ last = Label(0, "none", 0, 0, "ret", 0)
    /\ scenario = "detect"
    /\ script = [k \in Tasks |-> <<>>]
    /\ shared = 0
    /\ observed = -1

NextDetect ==
    \E t \in 0 .. (DetTasks - 1) :
        \/ \E mutex_id \in MutexIds :
               last.op = "none" /\ sys_mutex_lock(t, mutex_id) /\ UNCHANGED user
        \/ \E sem_id \in SemIds :
               last.op = "none" /\ sys_semaphore_down(t, sem_id) /\ UNCHANGED user

SpecDetect == InitDetect /\ [][NextDetect]_vars

\* ------------------------------------------------------------------ C19
\* the detector as the call runs it: on the caller's class, with the request
\* added to the caller's need
Detected(t, op, r) ==
    IF op = "mutex_lock"
    THEN detect(m_available, Requested(m_need, t, r), m_allocation)
    ELSE detect(s_available, Requested(s_need, t, r), s_allocation)

\* C19: in a mutex_lock / semaphore_down with detection enabled the detector's
\* loop ends after at most N + 1 passes for N tasks: every pass but the last
\* marks at least one more task finished (passes <= tasks marked + 1, no task is
\* marked twice), and the call then returns -0xDEAD or goes on to the commit
\* (the detector itself does not stop the kernel).
C19_DetectorTerminates ==
    [][\A t \in Tasks : \A op \in {"mutex_lock", "semaphore_down"} :
          (Call(t, op) /\ use_dead_lock) =>
             \A d \in {Detected(t, op, last'.a)} :
                /\ d.passes <= ntasks + 1
                /\ d.passes <= Len(d.order) + 1
                /\ \A i, j \in 1 .. Len(d.order) : d.order[i] = d.order[j] => i = j
                /\ \A k \in Tasks : d.finish[k] <=> \E i \in 1 .. Len(d.order) : d.order[i] = k
                /\ ~(overflow_checks /\ d.ovf)
                /\ Refused' <=> Unsafe(d)]_vars

\* all DetTasks tasks finish, one per pass and the caller last, so the loop runs
\* DetTasks + 1 passes; the semaphore had no unit, so the accepted caller waits
C19_Witness ==
    /\ scenario = "detect"
    /\ ntasks = DetTasks
    /\ last.op = "semaphore_down"
    /\ last.phase = "suspended"
    /\ s_available[last.a + 1] = 0
    /\ detect(s_available, s_need, s_allocation).passes = ntasks + 1

\* ------------------------------------------------------------------ C20
\* the calls outside the accounting model, and the steps that finish them (the
\* timer wake-up of sleep, the re-acquisition of the mutex in condvar_wait)
FrameCall == last'.op \in {"sleep", "condvar_create", "condvar_signal", "condvar_wait"}

\* C20: sleep, condvar_create, condvar_signal and condvar_wait leave every
\* task's need and allocation vectors, the available vectors and use_dead_lock
\* as they were, from the call to its return; condvar_wait(c, m) in particular
\* leaves m_available[m] and the waiter's m_allocation[m] as they were, both when
\* it releases the mutex and when it takes it again.
C20_Frame ==
    [][FrameCall =>
          /\ UNCHANGED <<acct, use_dead_lock>>
          /\ last'.op = "condvar_wait" =>
                /\ At(m_available', last'.b) = At(m_available, last'.b)
                /\ m_allocation'[last'.task] = m_allocation[last'.task]]_vars

\* a task that holds mutex m by the accounting waits on a condvar: the mutex is
\* unlocked while the accounting still shows the unit as allocated to the waiter
C20_Witness ==
    /\ last.op = "condvar_wait"
    /\ last.phase = "suspended"
    /\ pc[last.task].st = "cv_blocked"
    /\ ~At(mutex_list, last.b).locked
    /\ At(m_available, last.b) = 0
    /\ At(m_allocation[last.task], last.b) = 1
=============================================================================
